---- MODULE Spec2Model ----
(***************************************************************************)
(* Model of the news/article enrichment and rollup pipeline of             *)
(* backend/build_ai_summary.py: the retry policy around the model-service  *)
(* call (generate_with_retry), the three worker stages and the             *)
(* orchestrator (main) that collects their results and flushes them.       *)
(***************************************************************************)
EXTENDS Integers, Sequences, FiniteSets, TLC

\* ------------------------------------------------------------------------
\* Program constants
\* ------------------------------------------------------------------------
DEFAULT_MAX_RETRIES == 8
INITIAL_DELAY == 8
MAX_DELAY == 20

None == "None"

Min(a, b) == IF a <= b THEN a ELSE b

\* ------------------------------------------------------------------------
\* The model service as generate_with_retry sees it: one outcome per call.
\* An error carries its exception type and whether its message contains
\* "429" / "RESOURCE_EXHAUSTED".
\* ------------------------------------------------------------------------
Responses == {"respA", "respB"}

ErrorTypes == {"ClientError", "ServerError"}

CallErrors ==
  [kind : {"error"}, type : ErrorTypes, has429 : BOOLEAN, hasRE : BOOLEAN]

CallOks == [kind : {"ok"}, resp : Responses]

CallOutcomes == CallOks \cup CallErrors

\* No call made yet / nothing returned.
NoOutcome == [kind |-> "none"]

\* except genai_errors.ClientError ... if "429" in msg or "RESOURCE_EXHAUSTED" in msg
is_rate_limit_mut_any_type(o) ==
  o.kind = "error" /\ (o.has429 \/ o.hasRE)

is_rate_limit(o) ==
  o.kind = "error" /\ o.type = "ClientError" /\ (o.has429 \/ o.hasRE)

\* The transient rate-limit / quota signal of the model service: a client
\* error whose message carries "429" or "RESOURCE_EXHAUSTED".
TransientRateLimit(o) ==
  o.kind = "error" /\ o.type = "ClientError" /\ (o.has429 \/ o.hasRE)

\* Jitter random.random() in [0, 1), in tenths of a second.
Jitters == 0..9

\* The local state of one generate_with_retry invocation.
\*   attempt   loop index of range(max_retries) about to run
\*   delay     the base delay of the next sleep
\*   calls     calls of call_fn made so far
\*   sleeps    time.sleep calls made so far
\*   slept     seconds slept so far, jitter left out (a lower bound)
\*   status    "running" | "returned" | "raised" | "none" (fell off the loop)
\*   result    the outcome returned (a response) or raised (an error)
gwr_start(max_retries) ==
  [max_retries |-> max_retries, attempt |-> 0, delay |-> INITIAL_DELAY,
   calls |-> 0, sleeps |-> 0, slept |-> 0, last_delay |-> 0, last_jitter |-> 0,
   status |-> IF max_retries <= 0 THEN "none" ELSE "running",
   result |-> NoOutcome]

\* The for loop is over: the function falls off its end and returns None.
gwr_loop_end(r) ==
  IF r.status = "running" /\ r.attempt >= r.max_retries
    THEN [r EXCEPT !.status = "none"]
    ELSE r

gwr_attempt_mut_retry_all(r, o, jitter) ==
  LET called == [r EXCEPT !.calls = @ + 1] IN
  IF o.kind = "ok"
    THEN [called EXCEPT !.status = "returned", !.result = o]
    ELSE gwr_loop_end([called EXCEPT !.sleeps = @ + 1,
                          !.slept = @ + r.delay,
                          !.last_delay = r.delay,
                          !.last_jitter = jitter,
                          !.delay = Min(r.delay * 2, MAX_DELAY),
                          !.attempt = @ + 1])

gwr_attempt_mut_extra_call(r, o, jitter) ==
  LET called == [r EXCEPT !.calls = @ + 1] IN
  IF o.kind = "ok"
    THEN [called EXCEPT !.status = "returned", !.result = o,
                        !.calls = IF r.attempt > 0 THEN @ + 1 ELSE @]
  ELSE IF is_rate_limit(o)
    THEN gwr_loop_end([called EXCEPT !.sleeps = @ + 1,
                          !.slept = @ + r.delay,
                          !.last_delay = r.delay,
                          !.last_jitter = jitter,
                          !.delay = Min(r.delay * 2, MAX_DELAY),
                          !.attempt = @ + 1])
  ELSE [called EXCEPT !.status = "raised", !.result = o]

\* Mutant: the delay doubles without the cap.
gwr_attempt_mut_no_cap(r, o, jitter) ==
  LET called == [r EXCEPT !.calls = @ + 1] IN
  IF o.kind = "ok"
    THEN [called EXCEPT !.status = "returned", !.result = o]
  ELSE IF is_rate_limit(o)
    THEN gwr_loop_end([called EXCEPT !.sleeps = @ + 1,
                          !.slept = @ + r.delay,
                          !.last_delay = r.delay,
                          !.last_jitter = jitter,
                          !.delay = r.delay * 2,
                          !.attempt = @ + 1])
  ELSE [called EXCEPT !.status = "raised", !.result = o]

\* One iteration of the loop body: call_fn() returned or raised o.
gwr_attempt(r, o, jitter) ==
  LET called == [r EXCEPT !.calls = @ + 1] IN
  IF o.kind = "ok"
    THEN [called EXCEPT !.status = "returned", !.result = o]
  ELSE IF is_rate_limit(o)
    THEN gwr_loop_end([called EXCEPT !.sleeps = @ + 1,
                          !.slept = @ + r.delay,
                          !.last_delay = r.delay,
                          !.last_jitter = jitter,
                          !.delay = Min(r.delay * 2, MAX_DELAY),
                          !.attempt = @ + 1])
  ELSE [called EXCEPT !.status = "raised", !.result = o]

\* The whole loop, for a service whose answers are given as a script.
RECURSIVE gwr_run(_, _)
gwr_run(r, script) ==
  IF r.status # "running" \/ script = <<>>
    THEN r
    ELSE gwr_run(gwr_attempt(r, Head(script), 0), Tail(script))

generate_with_retry(script, max_retries) ==
  gwr_run(gwr_start(max_retries), script)

\* ------------------------------------------------------------------------
\* Pipeline constants
\* ------------------------------------------------------------------------
MAX_WORKERS == 3
MIN_CONFIDENCE == 72            \* 0.72, confidences are in hundredths
MAX_ARTICLES_PER_SYMBOL == 8
BATCH_SIZE == 5
MAX_HOLDINGS_FOR_ROLLUP == 6
MAX_SECONDS_PER_SYMBOL == 30
SENTIMENT_THRESHOLD == 5
MIN_SUMMARY_LEN == 50
MODEL_ARTICLE == "gemini-2.5-flash-lite"

\* Bounds of the model
MaxOddItems == 1     \* leading items of a response that may be malformed

\* Timestamps: rows written before the run, and now_utc() during the run.
T_OLD == "t_old"
T_RUN == "t_run"

\* ------------------------------------------------------------------------
\* Reference data and the article tables the run starts from
\* ------------------------------------------------------------------------
\* load_enabled_symbols(): the enabled tickers.
EnabledSymbols == <<"AAA", "XLF", "XLK">>

MacroSymbols == <<"ECONOMY", "TRUMP">>

\* tickers.json: the symbols whose sector is "ETF".
is_etf_symbol(sym) == sym \in {"XLF", "XLK"}

\* etfs.json: fund -> holdings, already sorted by weight descending.
EtfFunds ==
  << [symbol |-> "XLF", top_holdings |-> <<"BBB">>],
     [symbol |-> "XLK", top_holdings |-> <<"AAA", "CCC">>] >>

\* news_articles joined with article_nlp and article_content; ids are in
\* published_at_utc descending order.
ArticleIds == 1..9

article_symbol(a) ==
  IF a <= 6 THEN "AAA" ELSE IF a = 7 THEN "ECONOMY" ELSE IF a = 8 THEN "XLK" ELSE "AAA"

article_confidence(a) == IF a = 9 THEN 50 ELSE 90

article_has_text(a) == a % 2 = 0

ORIGINAL_SENTIMENT == 50        \* COALESCE(a.sentiment_score, 50)

FOREIGN_ID == 99                \* an article id no table holds
NO_ID == 0                      \* a missing or blank article_id

NoRow == [exists |-> FALSE]

\* A row of article_ai_summary.
SummaryRow(sym, model, src, summary, kps, rel, ts) ==
  [exists |-> TRUE, symbol |-> sym, model_name |-> model, input_source |-> src,
   article_summary |-> summary, key_points |-> kps, is_relevant |-> rel,
   created_at_utc |-> ts]

OldSummaryRow(a) ==
  SummaryRow(article_symbol(a), MODEL_ARTICLE, "finnhub_summary_only",
             "old summary", <<"k1", "k2", "k3">>, 1, T_OLD)

\* The sets of already-enriched articles a run may start from.
EnrichedAtStart ==
  { {7, 8},                 \* AAA has 6 candidates (two sub-batches)
    {2, 3, 4, 5, 6, 8},     \* AAA and ECONOMY have one candidate each
    {2, 3, 4, 5, 6, 7},     \* AAA and XLK have one candidate each
    {1, 2, 3, 4, 5, 6, 7, 8} }  \* nothing left to enrich

\* ------------------------------------------------------------------------
\* Sequence helpers
\* ------------------------------------------------------------------------
RECURSIVE SeqOfSet(_)
SeqOfSet(S) ==
  IF S = {} THEN <<>>
  ELSE LET m == CHOOSE x \in S : \A y \in S : x <= y
       IN <<m>> \o SeqOfSet(S \ {m})

Take(seq, n) == SubSeq(seq, 1, Min(n, Len(seq)))

Range(seq) == {seq[i] : i \in 1..Len(seq)}

\* ------------------------------------------------------------------------
\* Stage 1: candidate selection and the batch summarizer
\* ------------------------------------------------------------------------
\* Mutant: the query does not leave out the articles already enriched.
fetch_candidate_articles_mut_keep_enriched(summary_table, nlp_table, sym, limit) ==
  LET ids == {a \in ArticleIds :
                /\ article_symbol(a) = sym
                /\ article_confidence(a) >= MIN_CONFIDENCE}
  IN [i \in 1..Min(limit, Cardinality(ids)) |->
        [article_id |-> SeqOfSet(ids)[i],
         symbol |-> sym,
         sentiment_score |-> nlp_table[SeqOfSet(ids)[i]]]]

\* fetch_candidate_articles: confident, not yet enriched, newest first.
fetch_candidate_articles(summary_table, nlp_table, sym, limit) ==
  LET ids == {a \in ArticleIds :
                /\ article_symbol(a) = sym
                /\ article_confidence(a) >= MIN_CONFIDENCE
                /\ ~summary_table[a].exists}
  IN [i \in 1..Min(limit, Cardinality(ids)) |->
        [article_id |-> SeqOfSet(ids)[i],
         symbol |-> sym,
         sentiment_score |-> nlp_table[SeqOfSet(ids)[i]]]]

\* Mutant: the sub-batches advance by one article.
next_chunk_start_mut_step_one(i, n) == i + 1

\* _chunks(lst, n): range(0, len(lst), n), the start of the sub-batch after
\* the one that starts at index i.
next_chunk_start(i, n) == i + n

\* _chunks(lst, n): the sub-batch that starts at index i (1-based).
chunk_at(lst, i, n) == SubSeq(lst, i, Min(i + n - 1, Len(lst)))

build_input_source(a) ==
  IF article_has_text(a) THEN "summary+article_text" ELSE "finnhub_summary_only"

\* A JSON value of the sentiment_score field: a number, null or a string.
Num(v) == [t |-> "num", v |-> v]
Null == [t |-> "null"]
Str(v) == [t |-> "str", s |-> v]

\* str(x) of a JSON value.
py_str(x) ==
  CASE x.t = "str" -> x.s
    [] x.t = "num" -> ToString(x.v)
    [] x.t = "null" -> "None"

\* s.strip() on the texts the model uses.
strip(s) ==
  CASE s \in {"", " ", "   "} -> ""
    [] s = " k1 " -> "k1"
    [] s = "k3 " -> "k3"
    [] OTHER -> s

\* A JSON value of the key_points field: a list of values, or not a list.
KeyPoints(items) == [is_list |-> TRUE, items |-> items]
NotAList == [is_list |-> FALSE, items |-> <<>>]

\* [str(x).strip() for x in key_points if str(x).strip()]
RECURSIVE non_empty_stripped(_)
non_empty_stripped(kps) ==
  IF kps = <<>> THEN <<>>
  ELSE IF strip(py_str(Head(kps))) = "" THEN non_empty_stripped(Tail(kps))
  ELSE <<strip(py_str(Head(kps)))>> \o non_empty_stripped(Tail(kps))

\* [kp for kp in key_points if kp]
RECURSIVE non_empty(_)
non_empty(kps) ==
  IF kps = <<>> THEN <<>>
  ELSE IF Head(kps) = "" THEN non_empty(Tail(kps))
  ELSE <<Head(kps)>> \o non_empty(Tail(kps))

\* Mutant: a list of another length is padded and cut but not filtered again.
normalize_key_points_mut_keep_padding(kps) ==
  LET kp == non_empty_stripped(kps) IN
  IF Len(kp) = 3 THEN kp ELSE Take(kp \o <<"", "", "">>, 3)

\* Mutant: a longer list is kept whole.
normalize_key_points_mut_no_truncate(kps) ==
  LET kp == non_empty_stripped(kps) IN
  IF Len(kp) >= 3 THEN kp ELSE <<>>

\* The padding and truncation of key_points; <<>> stands for `continue`.
normalize_key_points(kps) ==
  LET kp == non_empty_stripped(kps) IN
  IF Len(kp) = 3 THEN kp
  ELSE LET padded == Take(kp \o <<"", "", "">>, 3)
           kept   == Take(non_empty(padded), 3)
       IN IF Len(kept) < 3 THEN <<>> ELSE kept

\* The batch entry of an article id: found, input_source, sentiment_score.
batch_lookup(batch, aid) ==
  IF \E i \in 1..Len(batch) : batch[i].article_id = aid
    THEN LET i == CHOOSE i \in 1..Len(batch) : batch[i].article_id = aid
         IN [input_source |-> build_input_source(aid),
             original_sentiment |-> Num(batch[i].sentiment_score)]
    ELSE [input_source |-> "finnhub_summary_only", original_sentiment |-> Null]

\* The out_map entry of one response object; accepted = FALSE for `continue`.
summarize_item_mut_keep_no_summary(obj, batch) ==
  LET kp == normalize_key_points(obj.key_points.items)
      b  == batch_lookup(batch, obj.article_id)
  IN [accepted |-> /\ obj.is_dict
                   /\ obj.article_id # NO_ID
                   /\ obj.key_points.is_list
                   /\ kp # <<>>,
      is_relevant |-> obj.is_relevant,
      input_source |-> b.input_source,
      article_summary |-> strip(obj.article_summary),
      key_points |-> kp,
      sentiment_score |-> IF obj.sentiment_score.t = "null"
                            THEN b.original_sentiment ELSE obj.sentiment_score,
      original_sentiment |-> b.original_sentiment]

summarize_item(obj, batch) ==
  LET kp == normalize_key_points(obj.key_points.items)
      b  == batch_lookup(batch, obj.article_id)
  IN [accepted |-> /\ obj.is_dict
                   /\ obj.article_id # NO_ID
                   /\ strip(obj.article_summary) # ""
                   /\ obj.key_points.is_list
                   /\ kp # <<>>,
      is_relevant |-> obj.is_relevant,
      input_source |-> b.input_source,
      article_summary |-> strip(obj.article_summary),
      key_points |-> kp,
      sentiment_score |-> IF obj.sentiment_score.t = "null"
                            THEN b.original_sentiment ELSE obj.sentiment_score,
      original_sentiment |-> b.original_sentiment]

\* dict.update: the entries of m2 win.
dict_update(m1, m2) ==
  [k \in DOMAIN m1 \cup DOMAIN m2 |-> IF k \in DOMAIN m2 THEN m2[k] ELSE m1[k]]

EmptyMap == [k \in {} |-> NoRow]

\* The loop over the parsed response that fills out_map.
RECURSIVE build_out_map(_, _, _)
build_out_map(data, batch, acc) ==
  IF data = <<>> THEN acc
  ELSE LET it == summarize_item(Head(data), batch) IN
       build_out_map(Tail(data), batch,
         IF it.accepted
           THEN dict_update(acc, [k \in {Head(data).article_id} |-> it])
           ELSE acc)

\* summarize_articles_batch after generate_with_retry ended as gw.  The
\* response text parses to a list of objects (is_list) or to anything else.
summarize_articles_batch(batch, gw) ==
  IF batch = <<>> THEN [raised |-> FALSE, out_map |-> EmptyMap]
  ELSE IF gw.status = "raised" THEN [raised |-> TRUE, out_map |-> EmptyMap]
  ELSE IF gw.status = "none" THEN [raised |-> FALSE, out_map |-> EmptyMap]
  ELSE IF ~gw.result.resp.is_list THEN [raised |-> FALSE, out_map |-> EmptyMap]
  ELSE [raised |-> FALSE,
        out_map |-> build_out_map(gw.result.resp.items, batch, EmptyMap)]

\* Mutant: a difference equal to the threshold counts as a change.
sentiment_changed_mut_at_least(ref, orig) ==
  (IF ref.v >= orig.v THEN ref.v - orig.v ELSE orig.v - ref.v) >= SENTIMENT_THRESHOLD

\* abs(float(ref) - float(orig)) > 5.0, for two numbers
sentiment_changed(ref, orig) ==
  (IF ref.v >= orig.v THEN ref.v - orig.v ELSE orig.v - ref.v) > SENTIMENT_THRESHOLD

\* The loop of process_symbol_articles over cands that builds pending_rows
\* and nlp_updates.  float(ref) raises for a sentiment_score that is a string.
RECURSIVE build_pending(_, _, _)
build_pending(cands, batch_out, acc) ==
  IF cands = <<>> \/ acc.raised THEN acc
  ELSE LET a == Head(cands) IN
       IF a.article_id \notin DOMAIN batch_out
         THEN build_pending(Tail(cands), batch_out, acc)
       ELSE LET out == batch_out[a.article_id]
                row == [article_id |-> a.article_id, symbol |-> a.symbol,
                        model_name |-> MODEL_ARTICLE,
                        input_source |-> out.input_source,
                        article_summary |-> out.article_summary,
                        key_points |-> out.key_points,
                        is_relevant |-> IF out.is_relevant THEN 1 ELSE 0,
                        now_ts |-> T_RUN]
                ref == out.sentiment_score
                orig == out.original_sentiment
                compared == ref.t # "null" /\ orig.t # "null"
            IN IF compared /\ ref.t = "str"
                 THEN [acc EXCEPT !.raised = TRUE]
               ELSE build_pending(Tail(cands), batch_out,
                      [acc EXCEPT
                         !.pending_rows = Append(@, row),
                         !.nlp_updates =
                            IF compared /\ sentiment_changed(ref, orig)
                              THEN Append(@, [article_id |-> a.article_id,
                                              sentiment_score |-> ref.v,
                                              classified_at |-> T_RUN])
                              ELSE @])

\* What a Stage 1 unit hands back: None, a raised exception or res_stats.
ResNone == [kind |-> "None"]
ResRaised == [kind |-> "raised"]
ResFalse == [kind |-> "False"]

\* Mutant: a row is pended for every key of batch_out, candidate or not.
stage1_result_mut_pends_all_outputs(sym, cands, batch_out) ==
  IF DOMAIN batch_out = {} THEN ResNone
  ELSE LET ids == SeqOfSet(DOMAIN batch_out)
       IN [kind |-> "result", symbol |-> sym,
           new_summaries |-> Len(ids),
           pending_rows |->
             [i \in 1..Len(ids) |->
                [article_id |-> ids[i], symbol |-> sym,
                 model_name |-> MODEL_ARTICLE,
                 input_source |-> batch_out[ids[i]].input_source,
                 article_summary |-> batch_out[ids[i]].article_summary,
                 key_points |-> batch_out[ids[i]].key_points,
                 is_relevant |-> IF batch_out[ids[i]].is_relevant THEN 1 ELSE 0,
                 now_ts |-> T_RUN]],
           nlp_updates |-> <<>>]

stage1_result(sym, cands, batch_out) ==
  IF DOMAIN batch_out = {} THEN ResNone
  ELSE LET p == build_pending(cands, batch_out,
                  [raised |-> FALSE, pending_rows |-> <<>>, nlp_updates |-> <<>>])
       IN IF p.raised THEN ResRaised
          ELSE IF Len(p.pending_rows) > 0
            THEN [kind |-> "result", symbol |-> sym,
                  new_summaries |-> Len(p.pending_rows),
                  pending_rows |-> p.pending_rows,
                  nlp_updates |-> p.nlp_updates]
          ELSE ResNone

\* build_holding_to_etfs_map: the funds whose top max_holdings hold h.
build_holding_to_etfs_map(funds, max_holdings) ==
  [h \in UNION {Range(Take(funds[i].top_holdings, max_holdings)) : i \in 1..Len(funds)} |->
     {funds[i].symbol : i \in {j \in 1..Len(funds) :
        h \in Range(Take(funds[j].top_holdings, max_holdings))}}]

holding_to_etfs == build_holding_to_etfs_map(EtfFunds, MAX_HOLDINGS_FOR_ROLLUP)

parent_etfs(sym) ==
  IF sym \in DOMAIN holding_to_etfs THEN holding_to_etfs[sym] ELSE {}

\* ------------------------------------------------------------------------
\* The datastore writes
\* ------------------------------------------------------------------------
\* The row INSERT stores for the parameters of UPSERT_AI_SUMMARY_SQL.
InsertedRow(row) ==
  [article_id |-> row.article_id, symbol |-> row.symbol,
   model_name |-> row.model_name, input_source |-> row.input_source,
   article_summary |-> row.article_summary, key_points |-> row.key_points,
   is_relevant |-> row.is_relevant, created_at_utc |-> row.now_ts]

\* Mutant: a plain INSERT, without the ON CONFLICT clause.
upsert_rows_mut_plain_insert(rows, row) == rows \cup {InsertedRow(row)}

\* Mutant: INSERT OR REPLACE, the existing row gives way to the new one.
upsert_rows_mut_replace_row(rows, row) ==
  LET conflict == {r \in rows : r.article_id = row.article_id}
  IN (rows \ conflict) \cup {InsertedRow(row)}

\* Mutant: the conflict branch does not overwrite key_points_json.
upsert_rows_mut_keep_key_points(rows, row) ==
  LET conflict == {r \in rows : r.article_id = row.article_id}
  IN IF conflict = {}
       THEN rows \cup {InsertedRow(row)}
       ELSE (rows \ conflict)
              \cup {[r EXCEPT !.is_relevant = row.is_relevant,
                              !.article_summary = row.article_summary,
                              !.created_at_utc = row.now_ts] : r \in conflict}

\* UPSERT_AI_SUMMARY_SQL on the rows of article_ai_summary: INSERT, and for
\* a row with the same article_id DO UPDATE SET of four columns.
upsert_rows(rows, row) ==
  LET conflict == {r \in rows : r.article_id = row.article_id}
  IN IF conflict = {}
       THEN rows \cup {InsertedRow(row)}
       ELSE (rows \ conflict)
              \cup {[r EXCEPT !.is_relevant = row.is_relevant,
                              !.article_summary = row.article_summary,
                              !.key_points = row.key_points,
                              !.created_at_utc = row.now_ts] : r \in conflict}

\* UPSERT_AI_SUMMARY_SQL: insert, or on conflict overwrite four columns.
upsert_ai_summary(table, row) ==
  [table EXCEPT ![row.article_id] =
     IF @.exists
       THEN [@ EXCEPT !.is_relevant = row.is_relevant,
                      !.article_summary = row.article_summary,
                      !.key_points = row.key_points,
                      !.created_at_utc = row.now_ts]
       ELSE SummaryRow(row.symbol, row.model_name, row.input_source,
                       row.article_summary, row.key_points, row.is_relevant,
                       row.now_ts)]

RECURSIVE execute_many_ai_summary(_, _)
execute_many_ai_summary(table, rows) ==
  IF rows = <<>> THEN table
  ELSE execute_many_ai_summary(upsert_ai_summary(table, Head(rows)), Tail(rows))

\* Mutant: the sentiment corrections are not written.
execute_many_nlp_mut_noop(table, updates) == table

\* UPDATE_NLP_SENTIMENT_SQL: rewrite the sentiment of an existing article.
RECURSIVE execute_many_nlp(_, _)
execute_many_nlp(table, updates) ==
  IF updates = <<>> THEN table
  ELSE execute_many_nlp(
         IF Head(updates).article_id \in DOMAIN table
           THEN [table EXCEPT ![Head(updates).article_id] = Head(updates).sentiment_score]
           ELSE table,
         Tail(updates))

\* ------------------------------------------------------------------------
\* What the model service may answer to a Stage 1 batch
\* ------------------------------------------------------------------------
PlainItem(a) ==
  [is_dict |-> TRUE, article_id |-> a, is_relevant |-> TRUE,
   sentiment_score |-> Num(ORIGINAL_SENTIMENT), article_summary |-> "summary",
   key_points |-> KeyPoints(<<Str("k1"), Str("k2"), Str("k3")>>)]

OddItems(a) ==
  { [PlainItem(a) EXCEPT !.sentiment_score = Null],
    [PlainItem(a) EXCEPT !.sentiment_score = Num(ORIGINAL_SENTIMENT + SENTIMENT_THRESHOLD)],
    [PlainItem(a) EXCEPT !.sentiment_score = Num(ORIGINAL_SENTIMENT + SENTIMENT_THRESHOLD + 1)],
    [PlainItem(a) EXCEPT !.sentiment_score = Str("high")],
    [PlainItem(a) EXCEPT !.is_relevant = FALSE],
    [PlainItem(a) EXCEPT !.article_summary = " "],
    [PlainItem(a) EXCEPT !.key_points = KeyPoints(<<Str("k1"), Str(" "), Str("k2")>>)],
    [PlainItem(a) EXCEPT !.key_points = KeyPoints(<<Str("k1"), Str("k2"), Num(7)>>)],
    [PlainItem(a) EXCEPT !.key_points =
       KeyPoints(<<Str(" k1 "), Str("   "), Str("k2"), Str("k3 "), Null, Str("k4")>>)],
    [PlainItem(a) EXCEPT !.key_points = KeyPoints(<<Str("k1"), Null>>)],
    [PlainItem(a) EXCEPT !.key_points = KeyPoints(<<>>)],
    [PlainItem(a) EXCEPT !.key_points = NotAList],
    [PlainItem(a) EXCEPT !.article_id = FOREIGN_ID],
    [PlainItem(a) EXCEPT !.article_id = NO_ID],
    [PlainItem(a) EXCEPT !.is_dict = FALSE] }

ItemChoices(a) == OddItems(a) \cup {PlainItem(a)}

\* The first k objects of a response, each any item for its article.
RECURSIVE OddPrefixes(_, _)
OddPrefixes(batch, k) ==
  IF k = 0 THEN {<<>>}
  ELSE {Append(pre, x) : pre \in OddPrefixes(batch, k - 1),
                         x \in ItemChoices(batch[k].article_id)}

\* One object per input item; only the first MaxOddItems may be odd.
BatchItemSeqs(batch) ==
  { [i \in 1..Len(batch) |->
       IF i <= Len(pre) THEN pre[i] ELSE PlainItem(batch[i].article_id)] :
      pre \in OddPrefixes(batch, Min(MaxOddItems, Len(batch))) }

BatchPayloads(batch) ==
  {[is_list |-> FALSE, items |-> <<>>]}
    \cup {[is_list |-> TRUE, items |-> its] : its \in BatchItemSeqs(batch)}

RateLimitError ==
  [kind |-> "error", type |-> "ClientError", has429 |-> TRUE, hasRE |-> FALSE]

FatalErrors ==
  { [kind |-> "error", type |-> "ClientError", has429 |-> FALSE, hasRE |-> FALSE],
    [kind |-> "error", type |-> "ServerError", has429 |-> TRUE, hasRE |-> FALSE] }

\* The scripts of a service that is rate limited n times and then answers
\* with a payload or with a fatal error.
RateLimitRuns == {0, 1, 3, DEFAULT_MAX_RETRIES}

CallScripts(payloads) ==
  { [i \in 1..n |-> RateLimitError] \o <<last>> :
      n \in {m \in RateLimitRuns : m < DEFAULT_MAX_RETRIES},
      last \in [kind : {"ok"}, resp : payloads] \cup FatalErrors }
    \cup { [i \in 1..DEFAULT_MAX_RETRIES |-> RateLimitError] }

\* ------------------------------------------------------------------------
\* Narratives, their validity, and the rollup reads
\* ------------------------------------------------------------------------
\* A narrative text is named by the symbol it is about and its kind; the
\* shape of a kind is what _is_valid_summary looks at: the length of the
\* stripped text, whether a denylisted phrase occurs in it, and the lengths
\* of its non-empty stripped lines.
Text(sym, kind) == [about |-> sym, kind |-> kind]

TextShape(kind) ==
  CASE kind = "empty"      -> [length |-> 0, has_phrase |-> FALSE, lines |-> <<>>]
    [] kind = "short"      -> [length |-> 49, has_phrase |-> FALSE, lines |-> <<49>>]
    [] kind = "meta"       -> [length |-> 200, has_phrase |-> TRUE, lines |-> <<200>>]
    [] kind = "fragmented" -> [length |-> 103, has_phrase |-> FALSE, lines |-> <<9, 9, 41, 41>>]
    [] kind = "listy"      -> [length |-> 134, has_phrase |-> FALSE, lines |-> <<9, 40, 41, 41>>]
    [] OTHER               -> [length |-> 400, has_phrase |-> FALSE, lines |-> <<400>>]

SHORT_LINE_LEN == 10
MIN_LINES_FOR_FRAGMENT_CHECK == 3

ShortLines(lines) == Cardinality({i \in 1..Len(lines) : lines[i] < SHORT_LINE_LEN})

\* _is_valid_summary; short_lines / len(lines) > 0.3 in exact arithmetic.
is_valid_summary_mut_accept_all(text) == TextShape(text.kind).length > 0

is_valid_summary(text) ==
  LET sh == TextShape(text.kind) IN
  /\ sh.length >= MIN_SUMMARY_LEN
  /\ ~sh.has_phrase
  /\ ~(Len(sh.lines) > MIN_LINES_FOR_FRAGMENT_CHECK
        /\ 10 * ShortLines(sh.lines) > 3 * Len(sh.lines))

\* A row of symbol_daily_snapshot for (symbol, today).
SnapshotRow(text, ts) == [exists |-> TRUE, daily_summary |-> text, updated_at_utc |-> ts]

\* Mutant: the rollup is generated whatever the snapshot of today holds.
should_generate_rollup_mut_always(table, sym, forced) == TRUE

\* should_generate_rollup
should_generate_rollup(table, sym, forced) ==
  \/ forced
  \/ sym \notin DOMAIN table
  \/ ~table[sym].exists
  \/ TextShape(table[sym].daily_summary.kind).length = 0

article_in_window(a) == a # 7

\* _execute_summary_multi_query + _format_summary_rows: relevant enriched
\* confident articles of the symbols, newest first.
summary_query(summary_table, syms, windowed, limit) ==
  Take(SeqOfSet({a \in ArticleIds :
                   /\ article_symbol(a) \in syms
                   /\ windowed => article_in_window(a)
                   /\ article_confidence(a) >= MIN_CONFIDENCE
                   /\ summary_table[a].exists
                   /\ summary_table[a].is_relevant = 1}), limit)

\* Mutant: the windowed query is the only one.
fetch_today_article_summaries_mut_no_fallback(summary_table, syms, limit) ==
  summary_query(summary_table, syms, TRUE, limit)

\* fetch_today_article_summaries(_multi): the windowed query, else unfiltered.
fetch_today_article_summaries(summary_table, syms, limit) ==
  IF summary_query(summary_table, syms, TRUE, limit) # <<>>
    THEN summary_query(summary_table, syms, TRUE, limit)
    ELSE summary_query(summary_table, syms, FALSE, limit)

ROLLUP_ITEM_LIMIT == 50
ETF_ITEM_LIMIT == 200

\* get_top_holdings_for_etf_from_json
get_top_holdings_for_etf(etf, limit) ==
  IF \E i \in 1..Len(EtfFunds) : EtfFunds[i].symbol = etf
    THEN Take(EtfFunds[CHOOSE i \in 1..Len(EtfFunds) : EtfFunds[i].symbol = etf].top_holdings,
              limit)
    ELSE <<>>

\* fetch_symbol_daily_summaries_multi: the non-empty narratives of today.
fetch_symbol_daily_summaries_multi(table, syms) ==
  {[symbol |-> sym, daily_summary |-> table[sym].daily_summary] :
     sym \in {x \in syms \cap DOMAIN table :
                table[x].exists /\ TextShape(table[x].daily_summary.kind).length > 0}}

\* (resp.text or "").strip() or None, after generate_with_retry ended as gw:
\* the rollup text, "None", or "raised" when the call raised.
rollup_text(gw) ==
  IF gw.status = "raised" THEN [kind |-> "raised"]
  ELSE IF gw.status = "none" THEN ResNone
  ELSE IF TextShape(gw.result.resp.kind).length = 0 THEN ResNone
  ELSE [kind |-> "text", text |-> gw.result.resp]

\* Mutant: a row that exists for (symbol, today) is kept as it is.
upsert_daily_snapshot_mut_keep_existing(table, row) ==
  IF table[row.symbol].exists THEN table
  ELSE [table EXCEPT ![row.symbol] = SnapshotRow(row.rollup, row.now_ts)]

\* UPSERT_DAILY_SNAPSHOT_SQL
upsert_daily_snapshot(table, row) ==
  [table EXCEPT ![row.symbol] = SnapshotRow(row.rollup, row.now_ts)]

RECURSIVE execute_many_snapshot(_, _)
execute_many_snapshot(table, rows) ==
  IF rows = <<>> THEN table
  ELSE execute_many_snapshot(upsert_daily_snapshot(table, Head(rows)), Tail(rows))

\* The answers the service may give to a rollup call about a symbol: a good
\* narrative, an empty text, or a malformed narrative.
MalformedKind(sym) ==
  CASE sym = "AAA" -> "meta"
    [] sym = "ECONOMY" -> "short"
    [] sym = "XLK" -> "fragmented"
    [] OTHER -> "meta"

RollupTexts(sym) ==
  {Text(sym, "good"), Text(sym, "empty"), Text(sym, MalformedKind(sym))}

VARIABLES
  rs,            \* the generate_with_retry invocation under test
  rate_limited,  \* consecutive rate-limit errors the service has answered
  last_outcome,  \* what the service answered to the latest call
  pc,            \* where main is: "idle", "stage1", "stage2", "stage3", "flush", "done"
  force,         \* the --force flag
  article_ai_summary,     \* table article_ai_summary: article id -> row
  article_nlp,            \* table article_nlp: article id -> sentiment_score
  symbol_daily_snapshot,  \* table symbol_daily_snapshot for today: symbol -> row
  s1, s2, s3,    \* the worker units of the three stages, by symbol
  changed_symbols,
  etfs_to_rollup,
  all_pending_article_rows,
  all_pending_nlp_updates,
  all_pending_rollups,
  total_new, total_refined, total_rollups,
  summary_rows,  \* the rows of article_ai_summary under a sequence of upserts
  last_write,    \* the parameters of the latest upsert
  write_count,   \* upserts made per article id (2: two or more)
  started_with   \* history: the kind of snapshots of today the run started with

retry_vars == <<rs, rate_limited, last_outcome>>

db_vars == <<article_ai_summary, article_nlp, symbol_daily_snapshot>>

main_vars == <<changed_symbols, etfs_to_rollup, all_pending_article_rows,
               all_pending_nlp_updates, all_pending_rollups,
               total_new, total_refined, total_rollups>>

run_vars == <<force, started_with>>

pipeline_vars == <<pc, run_vars, db_vars, s1, s2, s3, main_vars>>

upsert_vars == <<summary_rows, last_write, write_count>>

vars == <<retry_vars, pipeline_vars, upsert_vars>>

\* symbols = load_enabled_symbols() + ["ECONOMY", "TRUMP"]
symbols == EnabledSymbols \o MacroSymbols

Symbols == Range(symbols)

IndexOf(seq, x) == CHOOSE i \in 1..Len(seq) : seq[i] = x

Idle == [st |-> "idle"]
Queued == [st |-> "queued"]

Running(units) == {u \in DOMAIN units : units[u].st = "running"}

\* A pool worker is free, and the units submitted before u have started.
CanStartInOrder(units, order, u) ==
  /\ units[u].st = "queued"
  /\ Cardinality(Running(units)) < MAX_WORKERS
  /\ \A i \in 1..(IndexOf(order, u) - 1) : units[order[i]].st # "queued"

PipelineIdle ==
  /\ pc = "idle"
  /\ force = FALSE
  /\ started_with = "none"
  /\ article_ai_summary = [a \in ArticleIds |-> NoRow]
  /\ article_nlp = [a \in ArticleIds |-> ORIGINAL_SENTIMENT]
  /\ symbol_daily_snapshot = [sym \in Symbols |-> NoRow]
  /\ s1 = [sym \in Symbols |-> Idle]
  /\ s2 = [sym \in Symbols |-> Idle]
  /\ s3 = [sym \in Symbols |-> Idle]
  /\ changed_symbols = {}
  /\ etfs_to_rollup = {}
  /\ all_pending_article_rows = <<>>
  /\ all_pending_nlp_updates = <<>>
  /\ all_pending_rollups = <<>>
  /\ total_new = 0
  /\ total_refined = 0
  /\ total_rollups = 0

\* The article ids the upserts of UpsertSpec are about.
UpsertIds == {1, 2}

NoWrite == [article_id |-> NO_ID]

UpsertIdle ==
  /\ summary_rows = {}
  /\ last_write = NoWrite
  /\ write_count = [a \in UpsertIds |-> 0]

\* ------------------------------------------------------------------------
\* RetrySpec: one invocation of generate_with_retry against a service that
\* answers every call with any outcome.
\* ------------------------------------------------------------------------
RetryInit ==
  /\ \E m \in 0..DEFAULT_MAX_RETRIES : rs = gwr_start(m)
  /\ rate_limited = 0
  /\ last_outcome = NoOutcome
  /\ PipelineIdle
  /\ UpsertIdle

RetryCallOk ==
  /\ rs.status = "running"
  /\ \E o \in CallOks :
       /\ rs' = gwr_attempt(rs, o, 0)
       /\ last_outcome' = o
  /\ UNCHANGED <<rate_limited, pipeline_vars, upsert_vars>>

RetryCallRateLimited ==
  /\ rs.status = "running"
  /\ \E o \in {e \in CallErrors : TransientRateLimit(e)}, j \in Jitters :
       /\ rs' = gwr_attempt(rs, o, j)
       /\ last_outcome' = o
  /\ rate_limited' = rate_limited + 1
  /\ UNCHANGED <<pipeline_vars, upsert_vars>>

RetryCallOtherError ==
  /\ rs.status = "running"
  /\ \E o \in {e \in CallErrors : ~TransientRateLimit(e)} :
       /\ rs' = gwr_attempt(rs, o, 0)
       /\ last_outcome' = o
  /\ UNCHANGED <<rate_limited, pipeline_vars, upsert_vars>>

RetryNext ==
  \/ RetryCallOk
  \/ RetryCallRateLimited
  \/ RetryCallOtherError

RetrySpec == RetryInit /\ [][RetryNext]_vars

\* ------------------------------------------------------------------------
\* UpsertSpec: any sequence of UPSERT_AI_SUMMARY_SQL executions on a table
\* that starts empty.
\* ------------------------------------------------------------------------
\* The parameter tuples: two values of the pair (summary, key points), of the
\* pair (relevance, timestamp) and of the triple (symbol, model, source).
UpsertParams ==
  { [article_id |-> a,
     symbol |-> IF i = 1 THEN "AAA" ELSE "XLK",
     model_name |-> IF i = 1 THEN MODEL_ARTICLE ELSE "other-model",
     input_source |-> IF i = 1 THEN "finnhub_summary_only" ELSE "summary+article_text",
     article_summary |-> IF m = 1 THEN "summary one" ELSE "summary two",
     key_points |-> IF m = 1 THEN <<"k1", "k2", "k3">> ELSE <<"k4", "k5", "k6">>,
     is_relevant |-> IF t = 1 THEN 1 ELSE 0,
     now_ts |-> IF t = 1 THEN T_OLD ELSE T_RUN] :
    a \in UpsertIds, i \in {1, 2}, m \in {1, 2}, t \in {1, 2} }

UpsertInit ==
  /\ rs = gwr_start(0)
  /\ rate_limited = 0
  /\ last_outcome = NoOutcome
  /\ PipelineIdle
  /\ UpsertIdle

\* upsert_article_ai_summary: one execution of the statement.
UpsertWrite ==
  /\ \E row \in UpsertParams :
       /\ summary_rows' = upsert_rows(summary_rows, row)
       /\ last_write' = row
       /\ write_count' = [write_count EXCEPT ![row.article_id] = Min(@ + 1, 2)]
  /\ UNCHANGED <<retry_vars, pipeline_vars>>

UpsertNext == UpsertWrite

UpsertSpec == UpsertInit /\ [][UpsertNext]_vars

\* ------------------------------------------------------------------------
\* Spec: one run of main()
\* ------------------------------------------------------------------------
\* The rows of symbol_daily_snapshot for today when the run starts: none,
\* one with a narrative per symbol, or one with a blank narrative per symbol.
SnapshotsAtStart(kind) ==
  [sym \in Symbols |->
     CASE kind = "none"  -> NoRow
       [] kind = "old"   -> SnapshotRow(Text(sym, "old"), T_OLD)
       [] kind = "blank" -> SnapshotRow(Text(sym, "empty"), T_OLD)]

\* The inputs of a run: the flag, the enrichments and the snapshots of today
\* that exist when it starts.
RunInputs ==
  [force : BOOLEAN, enriched : EnrichedAtStart, snapshots : {"none", "old", "blank"}]

InitFrom(inputs) ==
  /\ UpsertIdle
  /\ rs = gwr_start(0)
  /\ rate_limited = 0
  /\ last_outcome = NoOutcome
  /\ \E run \in inputs :
       /\ force = run.force
       /\ article_ai_summary =
            [a \in ArticleIds |-> IF a \in run.enriched THEN OldSummaryRow(a) ELSE NoRow]
       /\ symbol_daily_snapshot = SnapshotsAtStart(run.snapshots)
       /\ started_with = run.snapshots
  /\ article_nlp = [a \in ArticleIds |-> ORIGINAL_SENTIMENT]
  /\ pc = "stage1"
  /\ s1 = [sym \in Symbols |-> Queued]
  /\ s2 = [sym \in Symbols |-> Idle]
  /\ s3 = [sym \in Symbols |-> Idle]
  /\ changed_symbols = {}
  /\ etfs_to_rollup = {}
  /\ all_pending_article_rows = <<>>
  /\ all_pending_nlp_updates = <<>>
  /\ all_pending_rollups = <<>>
  /\ total_new = 0
  /\ total_refined = 0
  /\ total_rollups = 0

Init == InitFrom(RunInputs)

\* Mutant: main keeps only the rows of the unit that completed last.
Collect1_mut_keeps_last_unit(res) ==
  IF res.kind = "result"
    THEN /\ total_new' = total_new + res.new_summaries
         /\ changed_symbols' = changed_symbols \cup {res.symbol}
         /\ all_pending_article_rows' = res.pending_rows
         /\ all_pending_nlp_updates' = res.nlp_updates
         /\ total_refined' = total_refined + Len(res.nlp_updates)
         /\ etfs_to_rollup' = etfs_to_rollup \cup parent_etfs(res.symbol)
                                \cup (IF is_etf_symbol(res.symbol) THEN {res.symbol} ELSE {})
         /\ UNCHANGED <<all_pending_rollups, total_rollups>>
    ELSE UNCHANGED main_vars

\* The body of the Stage 1 as_completed loop for one finished future.
Collect1(res) ==
  IF res.kind = "result"
    THEN /\ total_new' = total_new + res.new_summaries
         /\ changed_symbols' = changed_symbols \cup {res.symbol}
         /\ all_pending_article_rows' = all_pending_article_rows \o res.pending_rows
         /\ all_pending_nlp_updates' = all_pending_nlp_updates \o res.nlp_updates
         /\ total_refined' = total_refined + Len(res.nlp_updates)
         /\ etfs_to_rollup' = etfs_to_rollup \cup parent_etfs(res.symbol)
                                \cup (IF is_etf_symbol(res.symbol) THEN {res.symbol} ELSE {})
         /\ UNCHANGED <<all_pending_rollups, total_rollups>>
    ELSE UNCHANGED main_vars

\* A finished Stage 1 unit.  produced: the article ids in batch_out when it
\* ended; answered: the candidates the service answered with a well-formed
\* object; call_raised: a model-service call of the unit raised.
Done1(res, u, call_raised) ==
  [st |-> "done", res |-> res, produced |-> DOMAIN u.batch_out,
   answered |-> u.answered, call_raised |-> call_raised,
   calls |-> u.calls + (IF call_raised THEN 1 ELSE 0),
   n |-> Len(u.cands), broke |-> u.broke]

NotRun == [batch_out |-> EmptyMap, answered |-> {}, calls |-> 0,
           cands |-> <<>>, broke |-> FALSE]

\* An object of a response that is well formed for the batch it answers.
WellFormedItem(obj, batch) ==
  /\ obj.is_dict
  /\ \E i \in 1..Len(batch) : batch[i].article_id = obj.article_id
  /\ strip(obj.article_summary) # ""
  /\ obj.key_points.is_list
  /\ Len(non_empty_stripped(obj.key_points.items)) >= 3
  /\ obj.sentiment_score.t \in {"num", "null"}

WellFormedIds(gw, batch) ==
  IF gw.status = "returned" /\ gw.result.resp.is_list
    THEN {gw.result.resp.items[i].article_id :
            i \in {j \in 1..Len(gw.result.resp.items) :
                     WellFormedItem(gw.result.resp.items[j], batch)}}
    ELSE {}

\* A worker takes the symbol and fetches its candidates; with none it
\* returns None at once.
Stage1Start(sym) ==
  /\ pc = "stage1"
  /\ CanStartInOrder(s1, symbols, sym)
  /\ \E cands \in {fetch_candidate_articles(article_ai_summary, article_nlp, sym,
                                               MAX_ARTICLES_PER_SYMBOL)} :
        IF cands = <<>>
          THEN /\ s1' = [s1 EXCEPT ![sym] = Done1(ResNone, NotRun, FALSE)]
               /\ Collect1(ResNone)
          ELSE /\ s1' = [s1 EXCEPT ![sym] =
                          [st |-> "running", cands |-> cands, next |-> 1,
                           batch_out |-> EmptyMap, slept |-> 0, calls |-> 0,
                           answered |-> {}, broke |-> FALSE]]
               /\ UNCHANGED main_vars
  /\ UNCHANGED <<retry_vars, upsert_vars, pc, run_vars, db_vars, s2, s3>>

\* The deadline check before a sub-batch finds the budget exceeded: break.
Stage1OverBudget(sym) ==
  /\ pc = "stage1"
  /\ s1[sym].st = "running"
  /\ s1[sym].next <= Len(s1[sym].cands)
  /\ s1' = [s1 EXCEPT ![sym].next = Len(s1[sym].cands) + 1,
                       ![sym].broke = TRUE]
  /\ UNCHANGED <<retry_vars, upsert_vars, pc, run_vars, db_vars, s2, s3, main_vars>>

\* One sub-batch: summarize_articles_batch, with its retries, to its end.
Stage1Batch(sym) ==
  /\ pc = "stage1"
  /\ s1[sym].st = "running"
  /\ s1[sym].next <= Len(s1[sym].cands)
  /\ s1[sym].slept <= MAX_SECONDS_PER_SYMBOL
  /\ \E u \in {s1[sym]} :
     \E chunk \in {chunk_at(u.cands, u.next, BATCH_SIZE)} :
     \E script \in CallScripts(BatchPayloads(chunk)) :
     \E gw \in {generate_with_retry(script, DEFAULT_MAX_RETRIES)} :
     \E part \in {summarize_articles_batch(chunk, gw)} :
             IF part.raised
               THEN /\ s1' = [s1 EXCEPT ![sym] = Done1(ResRaised, u, TRUE)]
                    /\ Collect1(ResRaised)
               ELSE /\ s1' = [s1 EXCEPT ![sym] =
                               [u EXCEPT !.batch_out = dict_update(@, part.out_map),
                                         !.next = next_chunk_start(@, BATCH_SIZE),
                                         !.calls = @ + 1,
                                         !.answered = @ \cup WellFormedIds(gw, chunk),
                                         !.slept = Min(@ + gw.slept,
                                                       MAX_SECONDS_PER_SYMBOL + 1)]]
                    /\ UNCHANGED main_vars
  /\ UNCHANGED <<retry_vars, upsert_vars, pc, run_vars, db_vars, s2, s3>>

\* Mutant: the unit upserts its own enrichment rows before it returns.
Stage1Finish_mut_worker_upserts(sym) ==
  /\ pc = "stage1"
  /\ s1[sym].st = "running"
  /\ s1[sym].next > Len(s1[sym].cands)
  /\ \E res \in {stage1_result(sym, s1[sym].cands, s1[sym].batch_out)} :
        /\ s1' = [s1 EXCEPT ![sym] = Done1(res, s1[sym], FALSE)]
        /\ Collect1(res)
        /\ article_ai_summary' =
             IF res.kind = "result"
               THEN execute_many_ai_summary(article_ai_summary, res.pending_rows)
               ELSE article_ai_summary
  /\ UNCHANGED <<retry_vars, upsert_vars, pc, run_vars, article_nlp,
                 symbol_daily_snapshot, s2, s3>>

\* After the loop: build the pending rows and return; main collects them.
Stage1Finish(sym) ==
  /\ pc = "stage1"
  /\ s1[sym].st = "running"
  /\ s1[sym].next > Len(s1[sym].cands)
  /\ \E res \in {stage1_result(sym, s1[sym].cands, s1[sym].batch_out)} :
        /\ s1' = [s1 EXCEPT ![sym] = Done1(res, s1[sym], FALSE)]
        /\ Collect1(res)
  /\ UNCHANGED <<retry_vars, upsert_vars, pc, run_vars, db_vars, s2, s3>>

\* Mutant: main waits for a result from every unit, so a unit that raised,
\* was skipped or had nothing to do holds the run up for ever.
AllDone_mut_needs_result(units) ==
  \A u \in DOMAIN units :
    /\ units[u].st \in {"idle", "done"}
    /\ units[u].st = "done" => units[u].res.kind = "result"

\* Every future of the stage has been collected (the pool has shut down).
AllDone(units) == \A u \in DOMAIN units : units[u].st \in {"idle", "done"}

\* Mutant: every symbol that is not an ETF is a Stage 2 candidate.
rollup_candidates_mut_all_symbols(changed) == {sym \in Symbols : ~is_etf_symbol(sym)}

\* rollup_candidates: the changed symbols that are not ETFs.
rollup_candidates(changed) == {sym \in changed : ~is_etf_symbol(sym)}

\* The Stage 1 flush, then the dispatch of Stage 2.
Flush1 ==
  /\ pc = "stage1"
  /\ AllDone(s1)
  /\ IF all_pending_article_rows # <<>>
       THEN /\ article_ai_summary' =
                 execute_many_ai_summary(article_ai_summary, all_pending_article_rows)
            /\ article_nlp' =
                 IF all_pending_nlp_updates # <<>>
                   THEN execute_many_nlp(article_nlp, all_pending_nlp_updates)
                   ELSE article_nlp
       ELSE UNCHANGED <<article_ai_summary, article_nlp>>
  /\ s2' = [sym \in Symbols |->
              IF sym \in rollup_candidates(changed_symbols) THEN Queued ELSE Idle]
  /\ pc' = "stage2"
  /\ UNCHANGED <<retry_vars, upsert_vars, run_vars, symbol_daily_snapshot, s1, s3, main_vars>>

\* Mutant: an exception of one unit discards what its siblings returned.
Collect23_mut_abort_on_raise(res) ==
  IF res.kind = "result"
    THEN /\ total_rollups' = total_rollups + 1
         /\ all_pending_rollups' =
              Append(all_pending_rollups,
                     [symbol |-> res.symbol, now_ts |-> T_RUN, rollup |-> res.rollup])
         /\ UNCHANGED <<changed_symbols, etfs_to_rollup, all_pending_article_rows,
                        all_pending_nlp_updates, total_new, total_refined>>
    ELSE /\ all_pending_rollups' = IF res.kind = "raised" THEN <<>> ELSE all_pending_rollups
         /\ UNCHANGED <<changed_symbols, etfs_to_rollup, all_pending_article_rows,
                        all_pending_nlp_updates, total_new, total_refined, total_rollups>>

\* The body of the Stage 2 / Stage 3 as_completed loop for one future.
Collect23(res) ==
  IF res.kind = "result"
    THEN /\ total_rollups' = total_rollups + 1
         /\ all_pending_rollups' =
              Append(all_pending_rollups,
                     [symbol |-> res.symbol, now_ts |-> T_RUN, rollup |-> res.rollup])
         /\ UNCHANGED <<changed_symbols, etfs_to_rollup, all_pending_article_rows,
                        all_pending_nlp_updates, total_new, total_refined>>
    ELSE UNCHANGED main_vars

CanStart(units, u) ==
  /\ units[u].st = "queued"
  /\ Cardinality(Running(units)) < MAX_WORKERS

\* calls: the generate_content requests the unit issued (retries aside).
Done23(res, calls) == [st |-> "done", res |-> res, calls |-> calls]

\* process_symbol_rollup up to the end of its datastore session.
Stage2Start(sym) ==
  /\ pc = "stage2"
  /\ CanStart(s2, sym)
  /\ IF ~should_generate_rollup(symbol_daily_snapshot, sym, force)
       THEN /\ s2' = [s2 EXCEPT ![sym] = Done23(ResNone, 0)]
            /\ Collect23(ResNone)
       ELSE /\ s2' = [s2 EXCEPT ![sym] =
                       [st |-> "running",
                        items |-> fetch_today_article_summaries(
                                    article_ai_summary, {sym}, ROLLUP_ITEM_LIMIT)]]
            /\ UNCHANGED main_vars
  /\ UNCHANGED <<retry_vars, upsert_vars, pc, run_vars, db_vars, s1, s3>>

\* The datastore session of the unit raises; main catches it.
Stage2ReadFails(sym) ==
  /\ pc = "stage2"
  /\ CanStart(s2, sym)
  /\ s2' = [s2 EXCEPT ![sym] = Done23(ResRaised, 0)]
  /\ Collect23(ResRaised)
  /\ UNCHANGED <<retry_vars, upsert_vars, pc, run_vars, db_vars, s1, s3>>

\* build_daily_rollup and the return of the unit.
Stage2Call(sym) ==
  /\ pc = "stage2"
  /\ s2[sym].st = "running"
  /\ \E script \in CallScripts(RollupTexts(sym)) :
     \E rollup \in {rollup_text(generate_with_retry(script, DEFAULT_MAX_RETRIES))} :
     \E res \in {IF rollup.kind = "text"
                   THEN [kind |-> "result", symbol |-> sym, rollup |-> rollup.text]
                   ELSE ResFalse} :
          /\ s2' = [s2 EXCEPT ![sym] = Done23(res, 1)]
          /\ Collect23(res)
  /\ UNCHANGED <<retry_vars, upsert_vars, pc, run_vars, db_vars, s1, s3>>

all_etfs == {sym \in Symbols : is_etf_symbol(sym)}

\* Mutant: only --force passes the freshness check of a Stage 3 unit.
Dispatch3_mut_untriggered ==
  /\ pc = "stage2"
  /\ AllDone(s2)
  /\ s3' = [sym \in DOMAIN s3 |->
              IF sym \in all_etfs \cup etfs_to_rollup
                THEN [st |-> "queued", triggered |-> force]
                ELSE Idle]
  /\ pc' = "stage3"
  /\ UNCHANGED <<retry_vars, upsert_vars, run_vars, db_vars, s1, s2, main_vars>>

\* The dispatch of Stage 3 once the Stage 2 pool has shut down.
Dispatch3 ==
  /\ pc = "stage2"
  /\ AllDone(s2)
  /\ s3' = [sym \in DOMAIN s3 |->
              IF sym \in all_etfs \cup etfs_to_rollup
                THEN [st |-> "queued", triggered |-> (sym \in etfs_to_rollup) \/ force]
                ELSE Idle]
  /\ pc' = "stage3"
  /\ UNCHANGED <<retry_vars, upsert_vars, run_vars, db_vars, s1, s2, main_vars>>

\* sorted(): the symbols of the model in alphabetical order.
AlphabeticalOrder == <<"AAA", "BBB", "CCC", "ECONOMY", "TRUMP", "XLF", "XLK">>

RECURSIVE sorted_from(_, _)
sorted_from(S, i) ==
  IF i > Len(AlphabeticalOrder) THEN <<>>
  ELSE (IF AlphabeticalOrder[i] \in S THEN <<AlphabeticalOrder[i]>> ELSE <<>>)
         \o sorted_from(S, i + 1)

sorted(S) == sorted_from(S, 1)

final_etf_set == sorted(all_etfs \cup etfs_to_rollup)

\* Mutant: an untriggered ETF is skipped even without a snapshot of today.
etf_skipped_mut_ignores_missing(triggered, missing_today) == ~triggered

\* if (not triggered) and (not missing_today): return False
etf_skipped(triggered, missing_today) == ~triggered /\ ~missing_today

\* process_etf_rollup_worker up to the end of its datastore sessions.
Stage3Start(etf) ==
  /\ pc = "stage3"
  /\ etf \in Range(final_etf_set)
  /\ CanStartInOrder(s3, final_etf_set, etf)
  /\ \E missing_today \in {should_generate_rollup(symbol_daily_snapshot, etf, FALSE)} :
     \E symbol_set \in {{etf} \cup Range(get_top_holdings_for_etf(etf, MAX_HOLDINGS_FOR_ROLLUP))} :
     \E rollups \in {fetch_symbol_daily_summaries_multi(symbol_daily_snapshot, symbol_set)} :
        IF etf_skipped(s3[etf].triggered, missing_today)
          THEN /\ s3' = [s3 EXCEPT ![etf] = Done23(ResFalse, 0)]
               /\ Collect23(ResFalse)
          ELSE /\ s3' = [s3 EXCEPT ![etf] =
                          [st |-> "running", triggered |-> s3[etf].triggered,
                           rollups |-> rollups,
                           items_fallback |->
                             IF rollups = {}
                               THEN fetch_today_article_summaries(
                                      article_ai_summary, symbol_set, ETF_ITEM_LIMIT)
                               ELSE <<>>]]
               /\ UNCHANGED main_vars
  /\ UNCHANGED <<retry_vars, upsert_vars, pc, run_vars, db_vars, s1, s2>>

Stage3ReadFails(etf) ==
  /\ pc = "stage3"
  /\ etf \in Range(final_etf_set)
  /\ CanStartInOrder(s3, final_etf_set, etf)
  /\ s3' = [s3 EXCEPT ![etf] = Done23(ResRaised, 0)]
  /\ Collect23(ResRaised)
  /\ UNCHANGED <<retry_vars, upsert_vars, pc, run_vars, db_vars, s1, s2>>

\* Neither rollups nor fallback items: no call, the unit returns False.
Stage3Nothing(etf) ==
  /\ pc = "stage3"
  /\ s3[etf].st = "running"
  /\ s3[etf].rollups = {}
  /\ s3[etf].items_fallback = <<>>
  /\ s3' = [s3 EXCEPT ![etf] = Done23(ResFalse, 0)]
  /\ Collect23(ResFalse)
  /\ UNCHANGED <<retry_vars, upsert_vars, pc, run_vars, db_vars, s1, s2>>

\* build_etf_daily_rollup_from_symbol_rollups, or build_etf_daily_rollup on
\* the fallback items, and the return of the unit.
Stage3Call(etf) ==
  /\ pc = "stage3"
  /\ s3[etf].st = "running"
  /\ s3[etf].rollups # {} \/ s3[etf].items_fallback # <<>>
  /\ \E script \in CallScripts(RollupTexts(etf)) :
     \E rollup \in {rollup_text(generate_with_retry(script, DEFAULT_MAX_RETRIES))} :
     \E res \in {IF rollup.kind = "text"
                   THEN [kind |-> "result", symbol |-> etf, rollup |-> rollup.text]
                   ELSE ResFalse} :
          /\ s3' = [s3 EXCEPT ![etf] = Done23(res, 1)]
          /\ Collect23(res)
  /\ UNCHANGED <<retry_vars, upsert_vars, pc, run_vars, db_vars, s1, s2>>

\* The final flush of every pending rollup, and the report.
Flush3 ==
  /\ pc = "stage3"
  /\ AllDone(s3)
  /\ symbol_daily_snapshot' =
       IF all_pending_rollups # <<>>
         THEN execute_many_snapshot(symbol_daily_snapshot, all_pending_rollups)
         ELSE symbol_daily_snapshot
  /\ pc' = "done"
  /\ UNCHANGED <<retry_vars, upsert_vars, run_vars, article_ai_summary, article_nlp, s1, s2, s3, main_vars>>

Next ==
  \/ \E sym \in Symbols :
       \/ Stage1Start(sym)
       \/ Stage1OverBudget(sym)
       \/ Stage1Batch(sym)
       \/ Stage1Finish(sym)
       \/ Stage2Start(sym)
       \/ Stage2ReadFails(sym)
       \/ Stage2Call(sym)
       \/ Stage3Start(sym)
       \/ Stage3ReadFails(sym)
       \/ Stage3Nothing(sym)
       \/ Stage3Call(sym)
  \/ Flush1
  \/ Dispatch3
  \/ Flush3

Spec == Init /\ [][Next]_vars

\* The run whose termination is checked: a forced run in which AAA and XLK
\* have a candidate each and every snapshot of today is blank.
LiveInputs ==
  { [force |-> TRUE, enriched |-> {2, 3, 4, 5, 6, 7}, snapshots |-> "blank"] }

LiveInit == InitFrom(LiveInputs)

\* Fairness: the pool runs a submitted unit to its end and main does not
\* stop between statements, so a run that can take a step takes one.
FairSpec == LiveInit /\ [][Next]_vars /\ WF_vars(Next)

\* ------------------------------------------------------------------------
\* Properties of a run (checked under Spec, C5 under FairSpec)
\* ------------------------------------------------------------------------
Started(unit) == unit.st \in {"running", "done"}

Returned(unit) == unit.st = "done" /\ unit.res.kind = "result"

Raised(unit) == unit.st = "done" /\ unit.res.kind = "raised"

\* The enrichment row and the sentiment corrections a Stage 1 unit returned
\* are in the datastore.
Stage1ResultWritten(res) ==
  /\ \A i \in 1..Len(res.pending_rows) :
       LET row == res.pending_rows[i]
           stored == article_ai_summary[row.article_id]
       IN /\ stored.exists
          /\ stored.article_summary = row.article_summary
          /\ stored.key_points = row.key_points
          /\ stored.is_relevant = row.is_relevant
          /\ stored.created_at_utc = row.now_ts
  /\ \A i \in 1..Len(res.nlp_updates) :
       article_nlp[res.nlp_updates[i].article_id] = res.nlp_updates[i].sentiment_score

\* The narrative a Stage 2 or Stage 3 unit returned is the snapshot of today.
RollupWritten(res) ==
  /\ symbol_daily_snapshot[res.symbol].exists
  /\ symbol_daily_snapshot[res.symbol].daily_summary = res.rollup
  /\ symbol_daily_snapshot[res.symbol].updated_at_utc = T_RUN

\* C1: no Stage 3 unit starts before every snapshot row Stage 2 produced in
\* this run is written: once an ETF unit has started (and read), the
\* snapshot of every symbol Stage 2 generated a narrative for holds it.
C1_Stage3ReadsStage2Rows ==
  \A etf \in Symbols :
    Started(s3[etf]) =>
      \A sym \in Symbols : Returned(s2[sym]) => RollupWritten(s2[sym].res)

\* C2: no Stage 2 unit starts before every Stage 1 unit has finished and
\* every enrichment row and sentiment correction Stage 1 returned is written.
C2_Stage2AfterStage1Flush ==
  \A sym \in Symbols :
    Started(s2[sym]) =>
      /\ \A u \in Symbols : s1[u].st = "done"
      /\ \A u \in Symbols : Returned(s1[u]) => Stage1ResultWritten(s1[u].res)
      /\ \A i \in 1..Len(all_pending_article_rows) :
           article_ai_summary[all_pending_article_rows[i].article_id].exists

C2_Witness ==
  /\ s2["AAA"].st = "running"
  /\ Returned(s1["AAA"])
  /\ Len(s1["AAA"].res.pending_rows) = 6
  /\ Len(s1["AAA"].res.nlp_updates) >= 1
  /\ article_nlp[1] # ORIGINAL_SENTIMENT

\* C3: a narrative that fails the validity heuristic is never written to
\* symbol_daily_snapshot by a run: every row the run wrote holds a valid
\* narrative (a row the run did not write keeps its old timestamp).
C3_InvalidNeverWritten ==
  \A sym \in Symbols :
    (symbol_daily_snapshot[sym].exists
       /\ symbol_daily_snapshot[sym].updated_at_utc = T_RUN)
      => is_valid_summary(symbol_daily_snapshot[sym].daily_summary)

\* C4: an exception in one unit leaves its siblings alone: when the run is
\* over every unit of every stage has run to its end, whichever units
\* raised, and what each unit returned has been written; the Stage 1 results
\* already when Stage 1 is left.
C4_SiblingsUnaffected ==
  /\ pc # "stage1" =>
       \A u \in Symbols :
         /\ s1[u].st = "done"
         /\ Returned(s1[u]) => Stage1ResultWritten(s1[u].res)
  /\ pc = "done" =>
       /\ \A u \in Symbols :
            (u \in changed_symbols /\ ~is_etf_symbol(u)) => s2[u].st = "done"
       /\ \A u \in all_etfs \cup etfs_to_rollup : s3[u].st = "done"
       /\ \A u \in Symbols : Returned(s2[u]) => RollupWritten(s2[u].res)
       /\ \A u \in Symbols : Returned(s3[u]) => RollupWritten(s3[u].res)

C4_Witness ==
  /\ pc = "done"
  /\ Raised(s2["AAA"])
  /\ Returned(s2["ECONOMY"])
  /\ Raised(s3["XLK"])
  /\ Returned(s3["XLF"])

C6_FailedUnitOutputPersisted ==
  pc = "done" =>
    \A sym \in Symbols :
      Raised(s1[sym]) =>
        \A a \in s1[sym].produced \cap ArticleIds :
          /\ article_ai_summary[a].exists
          /\ article_ai_summary[a].created_at_utc = T_RUN

\* C7: a malformed object of a Stage 1 response is dropped on its own: a
\* unit none of whose model-service calls raised does not fail, and every
\* candidate answered with a well-formed object is among its pending rows.
C7_MalformedItemDroppedAlone ==
  \A sym \in Symbols :
    (s1[sym].st = "done" /\ ~s1[sym].call_raised)
      => /\ s1[sym].res.kind # "raised"
         /\ s1[sym].answered # {} =>
              /\ s1[sym].res.kind = "result"
              /\ s1[sym].answered
                   \subseteq {s1[sym].res.pending_rows[i].article_id :
                                i \in 1..Len(s1[sym].res.pending_rows)}

\* ------------------------------------------------------------------------
\* Properties of generate_with_retry (checked under RetrySpec)
\* ------------------------------------------------------------------------

\* C8: when the model service answers max_retries consecutive calls with a
\* transient rate-limit error, generate_with_retry has made exactly
\* max_retries calls, makes no further one, and the error propagates to the
\* caller (the invocation ends by raising).
C8_ExhaustionPropagates ==
  (rs.max_retries >= 1 /\ rate_limited >= rs.max_retries)
    => /\ rs.calls = rs.max_retries
       /\ rs.status = "raised"

\* C9: when N < max_retries consecutive rate-limit errors are followed by a
\* successful call, generate_with_retry returns the response of that call
\* (attempt N+1) after exactly N+1 calls and N sleeps; and it returns only so.
C9_RetrySuccess ==
  /\ last_outcome.kind = "ok"
       => /\ rs.status = "returned"
          /\ rs.result.resp = last_outcome.resp
          /\ rate_limited < rs.max_retries
          /\ rs.calls = rate_limited + 1
          /\ rs.sleeps = rate_limited
  /\ rs.status = "returned" => last_outcome.kind = "ok"

C9_Witness ==
  /\ rs.status = "returned"
  /\ rate_limited = 2
  /\ rs.result.resp = "respB"

\* C10: an error that is not a transient rate-limit signal (a client error
\* without "429" / "RESOURCE_EXHAUSTED", or an exception of any other type)
\* ends the invocation at once: it is the last call made, no sleep follows it
\* and it is the error raised to the caller; as the first answer it leaves
\* exactly one call and no sleep.
C10_NonTransientNotRetried ==
  (last_outcome.kind = "error"
     /\ ~(last_outcome.type = "ClientError"
           /\ (last_outcome.has429 \/ last_outcome.hasRE)))
    => /\ rs.status = "raised"
       /\ rs.result = last_outcome
       /\ rs.calls = rate_limited + 1
       /\ rs.sleeps = rate_limited
       /\ (rate_limited = 0 => (rs.calls = 1 /\ rs.sleeps = 0))

C10_Witness ==
  /\ rs.status = "raised"
  /\ rs.calls = 1
  /\ rs.sleeps = 0
  /\ rs.result.type = "ServerError"
  /\ rs.result.has429

\* Every sufficiently confident article of the symbol had its enrichment row
\* before the run started.
FullyEnriched(sym) ==
  \A a \in ArticleIds :
    (article_symbol(a) = sym /\ article_confidence(a) >= MIN_CONFIDENCE)
      => /\ article_ai_summary[a].exists
         /\ article_ai_summary[a].created_at_utc = T_OLD

\* C12: the Stage 1 unit of a symbol all of whose sufficiently confident
\* articles are already enriched selects no candidate, makes no
\* model-service call and returns nothing, and the run neither pends nor
\* writes an enrichment or a sentiment correction for that symbol.
C12_Stage1Idempotent ==
  \A sym \in Symbols :
    (FullyEnriched(sym) /\ s1[sym].st = "done")
      => /\ s1[sym].res = ResNone
         /\ s1[sym].calls = 0
         /\ s1[sym].produced = {}
         /\ sym \notin changed_symbols
         /\ \A i \in 1..Len(all_pending_article_rows) :
              all_pending_article_rows[i].symbol # sym
         /\ \A i \in 1..Len(all_pending_nlp_updates) :
              article_symbol(all_pending_nlp_updates[i].article_id) # sym
         /\ \A a \in ArticleIds :
              article_symbol(a) = sym => article_nlp[a] = ORIGINAL_SENTIMENT

C12_Witness ==
  /\ pc = "done"
  /\ FullyEnriched("ECONOMY")
  /\ \E a \in ArticleIds : article_symbol(a) = "ECONOMY" /\ article_ai_summary[a].exists
  /\ s1["ECONOMY"].res = ResNone
  /\ "AAA" \in changed_symbols

\* The table of the pipeline model (article id -> row) that a set of rows is.
TableOf(rows) ==
  [a \in ArticleIds |->
     IF \E r \in rows : r.article_id = a
       THEN LET r == CHOOSE x \in rows : x.article_id = a
            IN SummaryRow(r.symbol, r.model_name, r.input_source, r.article_summary,
                          r.key_points, r.is_relevant, r.created_at_utc)
       ELSE NoRow]

\* The two forms of the statement agree: upsert_ai_summary on the table is
\* upsert_rows on its rows.
UpsertTableAgrees ==
  \A row \in UpsertParams :
    TableOf(upsert_rows(summary_rows, row))
      = upsert_ai_summary(TableOf(summary_rows), row)

\* The rows of the table with the article id a.
RowsOf(a) == {r \in summary_rows : r.article_id = a}

\* C13: after any sequence of enrichment writes there is at most one row
\* per article id, exactly one for an id that was written, and the row of
\* the id written last carries the summary, key points, relevance flag and
\* timestamp of that last write (the second write, when it was written
\* twice).
C13_EnrichmentUpsert ==
  /\ \A a \in UpsertIds :
       /\ Cardinality(RowsOf(a)) <= 1
       /\ write_count[a] >= 1 => Cardinality(RowsOf(a)) = 1
  /\ last_write # NoWrite =>
       \A r \in RowsOf(last_write.article_id) :
         /\ r.article_summary = last_write.article_summary
         /\ r.key_points = last_write.key_points
         /\ r.is_relevant = last_write.is_relevant
         /\ r.created_at_utc = last_write.now_ts

C13_Witness ==
  /\ write_count[1] = 2
  /\ last_write.article_id = 1
  /\ last_write.article_summary = "summary two"
  /\ last_write.now_ts = T_RUN
  /\ last_write.model_name = "other-model"
  /\ \E r \in RowsOf(1) : r.article_summary = "summary two" /\ r.model_name = MODEL_ARTICLE
  /\ Cardinality(RowsOf(2)) = 1

\* The base delay the k-th sleep of an invocation is said to have.
ClaimedDelay(k) == IF k = 1 THEN 8 ELSE IF k = 2 THEN 16 ELSE 20

\* C11: across the retries of one invocation the base delay of the k-th
\* sleep is 8, 16, 20, 20, ...: it starts at 8, doubles after each transient
\* failure, never exceeds 20 and never decreases from one sleep to the
\* next; the jitter added to it is below one second (ten tenths).
C11_DelayNonDecreasingCapped ==
  [][rs'.sleeps = rs.sleeps + 1
       => /\ rs'.last_delay = ClaimedDelay(rs'.sleeps)
          /\ rs'.last_delay <= 20
          /\ rs.sleeps >= 1 => rs'.last_delay >= rs.last_delay
          /\ rs.sleeps >= 1 => rs'.last_delay \in {2 * rs.last_delay, 20}
          /\ rs'.last_jitter >= 0 /\ rs'.last_jitter < 10]_vars

C11_Witness ==
  /\ rs.sleeps = 4
  /\ rs.last_delay = 20
  /\ rs.last_jitter = 9
  /\ rs.status = "running"

\* Exactly three key points, each a non-empty text with no surrounding blanks.
ThreeKeyPoints(kps) ==
  /\ Len(kps) = 3
  /\ \A i \in 1..Len(kps) : kps[i] # "" /\ strip(kps[i]) = kps[i]

\* C14: every enrichment row the run pends or stores has exactly three key
\* points, each a non-empty trimmed text, whatever the key_points of the
\* answer were: too few, too many, blank or non-text entries, not a list.
C14_ExactlyThreeKeyPoints ==
  /\ \A i \in 1..Len(all_pending_article_rows) :
        ThreeKeyPoints(all_pending_article_rows[i].key_points)
  /\ \A a \in ArticleIds :
        article_ai_summary[a].exists => ThreeKeyPoints(article_ai_summary[a].key_points)

C14_Witness ==
  /\ pc = "done"
  /\ \E a \in ArticleIds :
        /\ article_ai_summary[a].exists
        /\ article_ai_summary[a].created_at_utc = T_RUN
        /\ article_ai_summary[a].key_points = <<"k1", "k2", "7">>

\* The snapshot of today of the symbol exists with a non-empty narrative.
FreshSnapshot(sym) ==
  /\ symbol_daily_snapshot[sym].exists
  /\ TextShape(symbol_daily_snapshot[sym].daily_summary.kind).length > 0

\* C15: without --force, the Stage 2 unit of a symbol whose snapshot of today
\* has a non-empty narrative never gets to its model-service call, ends
\* with no call and no rollup, and no step of the run changes that row.
C15_FreshnessGate ==
  [][\A sym \in Symbols :
       (~force /\ s2[sym].st # "idle" /\ FreshSnapshot(sym))
         => /\ symbol_daily_snapshot'[sym] = symbol_daily_snapshot[sym]
            /\ s2'[sym].st # "running"
            /\ s2'[sym].st = "done"
                 => s2'[sym].calls = 0 /\ s2'[sym].res.kind # "result"]_vars

C15_Witness ==
  /\ pc = "done"
  /\ ~force
  /\ "AAA" \in changed_symbols
  /\ s2["AAA"] = Done23(ResNone, 0)
  /\ symbol_daily_snapshot["AAA"] = SnapshotRow(Text("AAA", "old"), T_OLD)
  /\ symbol_daily_snapshot["XLK"].updated_at_utc = T_RUN

\* The Stage 1 flush of this run stored an enrichment row for the symbol.
NewEnrichment(h) ==
  /\ pc \in {"stage2", "stage3", "done"}
  /\ \E a \in ArticleIds :
        /\ article_symbol(a) = h
        /\ article_ai_summary[a].exists
        /\ article_ai_summary[a].created_at_utc = T_RUN

\* What the Stage 3 unit of the ETF reads while Stage 3 is under way.
Stage3Reads(e) ==
  LET symbol_set == {e} \cup Range(get_top_holdings_for_etf(e, MAX_HOLDINGS_FOR_ROLLUP))
  IN [rollups |-> fetch_symbol_daily_summaries_multi(symbol_daily_snapshot, symbol_set),
      items |-> fetch_today_article_summaries(article_ai_summary, symbol_set,
                                              ETF_ITEM_LIMIT)]

\* C16: when a symbol h has received a new enrichment in Stage 1 and h is a
\* top holding of the ETF e, e is in the trigger set, its Stage 3 unit is
\* dispatched as triggered, and the unit is not stopped by the freshness
\* check: it ends with a model-service call, or by a raised read, or
\* because it found nothing to read, and with a non-empty snapshot of e
\* for today it always has something to read.
C16_EtfTriggered ==
  \A h \in Symbols : \A e \in parent_etfs(h) :
    NewEnrichment(h)
      => /\ e \in etfs_to_rollup
         /\ pc \in {"stage3", "done"} => s3[e].st # "idle"
         /\ s3[e].st \in {"queued", "running"} => s3[e].triggered
         /\ (pc = "stage3" /\ s3[e].st = "done")
              => \/ s3[e].calls = 1
                 \/ s3[e].res = ResRaised
                 \/ /\ Stage3Reads(e).rollups = {}
                    /\ Stage3Reads(e).items = <<>>
                    /\ ~FreshSnapshot(e)

C16_Witness ==
  /\ pc = "stage3"
  /\ ~force
  /\ NewEnrichment("AAA")
  /\ "XLK" \in parent_etfs("AAA")
  /\ symbol_daily_snapshot["XLK"] = SnapshotRow(Text("XLK", "old"), T_OLD)
  /\ s3["XLK"].st = "done"
  /\ s3["XLK"].calls = 1
  /\ s3["XLK"].res.kind = "result"

\* The run started with a non-empty snapshot of today for the symbol.
FreshAtStart(sym) ==
  LET row == SnapshotsAtStart(started_with)[sym]
  IN row.exists /\ TextShape(row.daily_summary.kind).length > 0

\* The model service returned a valid narrative to the unit.
ValidNarrative(unit) == Returned(unit) /\ is_valid_summary(unit.res.rollup)

\* After the run the datastore holds the row of (symbol, today) with the
\* narrative, written once by this run.
OneSnapshotWith(sym, text) ==
  /\ symbol_daily_snapshot[sym] = SnapshotRow(text, T_RUN)
  /\ Cardinality({i \in 1..Len(all_pending_rollups) :
                    all_pending_rollups[i].symbol = sym}) = 1

\* C17 as stated: every symbol that received a new enrichment, had no
\* non-empty snapshot of today and for which the model returned a valid
\* narrative had a Stage 2 unit run for it, and after the run its one
\* snapshot row of today carries that narrative.
C17_Original ==
  \A sym \in Symbols :
    (/\ pc = "done"
     /\ NewEnrichment(sym)
     /\ ~FreshAtStart(sym)
     /\ ValidNarrative(s2[sym]) \/ ValidNarrative(s3[sym]))
      => /\ s2[sym].st = "done"
         /\ OneSnapshotWith(sym, s2[sym].res.rollup)

\* C17 (amended): a symbol that is not an ETF and received a new enrichment
\* in Stage 1 has a Stage 2 unit that runs in the same run; when it had no
\* non-empty snapshot of today and the model returned a valid narrative to
\* that unit, after the run its one snapshot row of today carries it.
C17_EndToEnd ==
  \A sym \in Symbols :
    (~is_etf_symbol(sym) /\ NewEnrichment(sym))
      => /\ pc \in {"stage3", "done"} => s2[sym].st = "done"
         /\ (pc = "done" /\ ~FreshAtStart(sym) /\ ValidNarrative(s2[sym]))
              => OneSnapshotWith(sym, s2[sym].res.rollup)

C17_Witness ==
  /\ pc = "done"
  /\ ~force
  /\ started_with = "blank"
  /\ NewEnrichment("AAA")
  /\ s2["AAA"].st = "done"
  /\ s2["AAA"].calls = 1
  /\ ValidNarrative(s2["AAA"])
  /\ symbol_daily_snapshot["AAA"] = SnapshotRow(Text("AAA", "good"), T_RUN)

\* C18: in a run with --force, every enabled symbol and every known ETF has
\* had a rollup unit (of Stage 2 or of Stage 3) run for it by the end of the
\* run, whatever snapshots of today existed and whether or not Stage 1
\* enriched anything for it.
C18_ForceRegeneratesAll ==
  (force /\ pc = "done")
    => \A sym \in Range(EnabledSymbols) \cup all_etfs :
         Started(s2[sym]) \/ Started(s3[sym])

\* The relevant enriched articles of the symbol that the rollup may use,
\* inside or outside the lookback window.
RelevantEnriched(table, sym, inside) ==
  {a \in ArticleIds :
     /\ article_symbol(a) = sym
     /\ article_confidence(a) >= MIN_CONFIDENCE
     /\ table[a].exists
     /\ table[a].is_relevant = 1
     /\ article_in_window(a) = inside}

\* C19: a Stage 2 unit that generates for a symbol with no relevant enriched
\* article inside the lookback window and at least one outside it goes on
\* with exactly the articles outside the window, and every Stage 2 unit
\* that has fetched its items ends with a model-service call.
C19_RollupFallback ==
  [][\A sym \in Symbols :
       /\ (/\ s2[sym].st = "queued"
           /\ s2'[sym].st = "running"
           /\ RelevantEnriched(article_ai_summary, sym, TRUE) = {}
           /\ RelevantEnriched(article_ai_summary, sym, FALSE) # {})
            => Range(s2'[sym].items) = RelevantEnriched(article_ai_summary, sym, FALSE)
       /\ (s2[sym].st = "running" /\ s2'[sym].st = "done")
            => s2'[sym].calls = 1]_vars

C19_Witness ==
  /\ pc = "stage3"
  /\ s2["ECONOMY"].st = "done"
  /\ s2["ECONOMY"].calls = 1
  /\ Returned(s2["ECONOMY"])
  /\ RelevantEnriched(article_ai_summary, "ECONOMY", TRUE) = {}
  /\ RelevantEnriched(article_ai_summary, "ECONOMY", FALSE) = {7}
  /\ article_ai_summary[7].created_at_utc = T_RUN

\* A worker unit of some stage is submitted and has not finished.
UnitPending == \E sym \in Symbols, units \in {s1, s2, s3} :
                 units[sym].st \in {"queued", "running"}

CeilDiv(n, b) == (n + b - 1) \div b

\* C21: a Stage 1 unit that fetched n candidates, broke off no sub-batch on
\* its time budget and had no call raise has invoked the batch summarizer
\* exactly ceil(n / BATCH_SIZE) times by the time it ends, and while it runs
\* it has made one invocation per sub-batch started.
C21_OneCallPerBatch ==
  \A sym \in Symbols :
    /\ (s1[sym].st = "done" /\ ~s1[sym].call_raised /\ ~s1[sym].broke)
         => s1[sym].calls = CeilDiv(s1[sym].n, BATCH_SIZE)
    /\ (s1[sym].st = "running" /\ ~s1[sym].broke)
         => /\ s1[sym].calls = CeilDiv(Min(s1[sym].next - 1, Len(s1[sym].cands)), BATCH_SIZE)
            /\ Len(s1[sym].cands) <= MAX_ARTICLES_PER_SYMBOL

C21_Witness ==
  /\ s1["AAA"].st = "done"
  /\ s1["AAA"].n = 6
  /\ s1["AAA"].calls = 2
  /\ ~s1["AAA"].broke
  /\ Returned(s1["AAA"])
  /\ s1["AAA"].res.new_summaries = 6

\* The article ids of the pending rows of a Stage 1 result.
PendingIds(res) == {res.pending_rows[i].article_id : i \in 1..Len(res.pending_rows)}

\* C22: once a Stage 1 unit has found its time budget exceeded it starts no
\* further sub-batch, and what its completed sub-batches produced for its
\* articles is returned as pending rows.
C22_BudgetKeepsResults ==
  \A sym \in Symbols :
    /\ (s1[sym].st = "running" /\ s1[sym].broke)
         => s1[sym].next > Len(s1[sym].cands)
    /\ (s1[sym].st = "done" /\ s1[sym].broke /\ s1[sym].produced \cap ArticleIds # {})
         => /\ Returned(s1[sym])
            /\ s1[sym].produced \cap ArticleIds \subseteq PendingIds(s1[sym].res)

\* The same statement for the units in which no step raised.
C22_HoldsUnlessRaised ==
  \A sym \in Symbols :
    (s1[sym].st = "done" /\ s1[sym].broke /\ s1[sym].produced \cap ArticleIds # {}
       /\ ~Raised(s1[sym]))
      => /\ Returned(s1[sym])
         /\ s1[sym].produced \cap ArticleIds \subseteq PendingIds(s1[sym].res)

\* Both scores of an accepted item are known and differ by more than the
\* threshold.
RefinedDiffers(out) ==
  /\ out.sentiment_score.t = "num"
  /\ out.original_sentiment.t = "num"
  /\ \/ out.sentiment_score.v - out.original_sentiment.v > SENTIMENT_THRESHOLD
     \/ out.original_sentiment.v - out.sentiment_score.v > SENTIMENT_THRESHOLD

NlpIds(updates) == {updates[i].article_id : i \in 1..Len(updates)}

BatchedIds(u) == {u.cands[i].article_id : i \in 1..Min(u.next - 1, Len(u.cands))}

\* C24: the maps the batch summarizer returned to a Stage 1 unit contain
\* only article ids of the sub-batches it was called with.
C24_OnlyBatchIds ==
  \A sym \in Symbols :
    s1[sym].st = "running" => DOMAIN s1[sym].batch_out \subseteq BatchedIds(s1[sym])

\* C25 as stated: once Stage 2 is dispatched, the symbols with a Stage 2 unit
\* are exactly those that received a new enrichment in Stage 1 of this run.
C25_Original ==
  pc \in {"stage2", "stage3", "done"}
    => \A sym \in Symbols : s2[sym].st # "idle" <=> NewEnrichment(sym)

\* C25 (amended): once Stage 2 is dispatched, the symbols with a Stage 2 unit
\* are exactly the symbols that are not ETFs and received a new enrichment
\* in Stage 1 of this run.
C25_Stage2Dispatch ==
  pc \in {"stage2", "stage3", "done"}
    => \A sym \in Symbols :
         s2[sym].st # "idle" <=> (NewEnrichment(sym) /\ ~is_etf_symbol(sym))

C25_Witness ==
  /\ pc = "stage2"
  /\ s2["AAA"].st = "queued"
  /\ NewEnrichment("AAA")
  /\ s2["ECONOMY"].st = "idle"
  /\ ~NewEnrichment("ECONOMY")
  /\ article_ai_summary[7].exists
  /\ s2["XLK"].st = "idle"
  /\ NewEnrichment("XLK")

\* The ETF is in the holdings-triggered set, or has no non-empty snapshot of
\* today, or the run is forced.
EtfToProcess(e) == e \in etfs_to_rollup \/ ~FreshSnapshot(e) \/ force

ReturnedRows(a) ==
  {row \in UNION {Range(s1[u].res.pending_rows) : u \in {v \in Symbols : Returned(s1[v])}} :
     row.article_id = a}

ReturnedCorrections(a) ==
  {upd \in UNION {Range(s1[u].res.nlp_updates) : u \in {v \in Symbols : Returned(s1[v])}} :
     upd.article_id = a}

\* The narratives that the Stage 2 and Stage 3 units returned for sym.
ReturnedRollups(sym) ==
  {u.res.rollup : u \in {v \in {s2[sym], s3[sym]} : Returned(v)}}

\* C27: the datastore after a run does not depend on the order in which the
\* units of a stage start and complete.  No step inside a pool changes a
\* table, so every unit of a stage reads the same tables; what main
\* aggregates at the end of Stage 1 is determined by the set of unit
\* results; and each flush leaves every key at the one value determined by
\* the result of the one unit that returned something for it.
C27_OrderIndependent ==
  [][/\ (pc' = pc \/ pc = "stage2") => UNCHANGED db_vars
     /\ (pc = "stage1" /\ pc' = "stage2")
          => /\ changed_symbols = {sym \in Symbols : Returned(s1[sym])}
             /\ etfs_to_rollup =
                  UNION {parent_etfs(sym) \cup (IF is_etf_symbol(sym) THEN {sym} ELSE {}) :
                           sym \in {u \in Symbols : Returned(s1[u])}}
             /\ \A a \in ArticleIds :
                  /\ IF ReturnedRows(a) = {}
                       THEN article_ai_summary'[a] = article_ai_summary[a]
                       ELSE \A row \in ReturnedRows(a) :
                              article_ai_summary'[a] =
                                upsert_ai_summary(article_ai_summary, row)[a]
                  /\ IF ReturnedCorrections(a) = {}
                       THEN article_nlp'[a] = article_nlp[a]
                       ELSE \A upd \in ReturnedCorrections(a) :
                              article_nlp'[a] = upd.sentiment_score
     /\ (pc = "stage3" /\ pc' = "done")
          => \A sym \in Symbols :
               IF ReturnedRollups(sym) = {}
                 THEN symbol_daily_snapshot'[sym] = symbol_daily_snapshot[sym]
                 ELSE \A text \in ReturnedRollups(sym) :
                        /\ symbol_daily_snapshot'[sym].exists
                        /\ symbol_daily_snapshot'[sym].daily_summary = text]_vars

\* The units of Stage 1 completed in an order other than the one they were
\* submitted in, and the rows of both are in the datastore.
C27_Witness ==
  /\ pc = "done"
  /\ Len(all_pending_article_rows) >= 2
  /\ all_pending_article_rows[1].symbol = "XLK"
  /\ all_pending_article_rows[2].symbol = "AAA"
  /\ article_ai_summary[8].exists /\ article_ai_summary[8].created_at_utc = T_RUN
  /\ article_ai_summary[1].exists /\ article_ai_summary[1].created_at_utc = T_RUN
  /\ Len(all_pending_rollups) >= 2
  /\ all_pending_rollups[1].symbol = "AAA"
  /\ symbol_daily_snapshot["AAA"].updated_at_utc = T_RUN
  /\ symbol_daily_snapshot["XLK"].updated_at_utc = T_RUN

\* Article a is one that fetch_candidate_articles can return for sym.
Selectable(a, sym) ==
  /\ a \in ArticleIds
  /\ article_symbol(a) = sym
  /\ article_confidence(a) >= MIN_CONFIDENCE

\* C28: every enrichment row and every sentiment correction that main holds
\* for the Stage 1 flush is for an article of that symbol with confidence at
\* or above the minimum and, until the flush, without an enrichment row,
\* whatever ids the model responses named; and every enrichment row or
\* sentiment the run wrote is one of those pended rows.
C28_FlushedRowsAreCandidates ==
  /\ \A i \in 1..Len(all_pending_article_rows) :
       /\ Selectable(all_pending_article_rows[i].article_id,
                     all_pending_article_rows[i].symbol)
       /\ pc = "stage1"
            => ~article_ai_summary[all_pending_article_rows[i].article_id].exists
  /\ \A i \in 1..Len(all_pending_nlp_updates) :
       /\ all_pending_nlp_updates[i].article_id \in ArticleIds
       /\ article_confidence(all_pending_nlp_updates[i].article_id) >= MIN_CONFIDENCE
       /\ \E j \in 1..Len(all_pending_article_rows) :
            all_pending_article_rows[j].article_id = all_pending_nlp_updates[i].article_id
  /\ \A a \in ArticleIds :
       /\ (article_ai_summary[a].exists /\ article_ai_summary[a].created_at_utc = T_RUN)
            => \E j \in 1..Len(all_pending_article_rows) :
                 /\ all_pending_article_rows[j].article_id = a
                 /\ all_pending_article_rows[j].symbol = article_ai_summary[a].symbol
       /\ article_nlp[a] # ORIGINAL_SENTIMENT
            => \E j \in 1..Len(all_pending_nlp_updates) :
                 all_pending_nlp_updates[j].article_id = a

\* A unit whose batch_out held an id outside its batch returned rows, and
\* the flush wrote rows for its answered candidates only.
C28_Witness ==
  /\ pc = "stage2"
  /\ Returned(s1["AAA"])
  /\ FOREIGN_ID \in s1["AAA"].produced
  /\ s1["AAA"].n = 6
  /\ PendingIds(s1["AAA"].res) = 2..6
  /\ \A a \in 2..6 :
       article_ai_summary[a].exists /\ article_ai_summary[a].created_at_utc = T_RUN
  /\ ~article_ai_summary[1].exists
  /\ ~article_ai_summary[9].exists

\* C29: an execution of the enrichment upsert that hits an existing row for
\* its article id leaves that row's symbol, model_name and input_source as
\* they were and sets is_relevant, summary, key points and created-at to the
\* values written; the rows of other article ids are not touched.
C29_UpsertKeepsFirstWriteColumns ==
  [][\A r \in summary_rows :
       \E r2 \in summary_rows' :
         /\ r2.article_id = r.article_id
         /\ r2.symbol = r.symbol
         /\ r2.model_name = r.model_name
         /\ r2.input_source = r.input_source
         /\ IF r.article_id = last_write'.article_id
              THEN /\ r2.is_relevant = last_write'.is_relevant
                   /\ r2.article_summary = last_write'.article_summary
                   /\ r2.key_points = last_write'.key_points
                   /\ r2.created_at_utc = last_write'.now_ts
              ELSE r2 = r]_vars

\* Article 2 was written twice; the second write named another symbol,
\* model and input source, and the row still has those of the first.
C29_Witness ==
  /\ write_count[2] = 2
  /\ last_write.article_id = 2
  /\ last_write.symbol = "AAA"
  /\ last_write.model_name = MODEL_ARTICLE
  /\ last_write.input_source = "finnhub_summary_only"
  /\ last_write.is_relevant = 0
  /\ \E r \in RowsOf(2) :
       /\ r.symbol = "XLK"
       /\ r.model_name = "other-model"
       /\ r.input_source = "summary+article_text"
       /\ r.is_relevant = 0
       /\ r.article_summary = last_write.article_summary

\* A Stage 3 unit that found neither constituent narratives nor fallback
\* articles ends with no call, returns False and pends nothing.
C30_Stage3SkipsEmptyInput ==
  [][\A etf \in Symbols :
       (/\ pc = "stage3"
        /\ s3[etf].st = "running"
        /\ s3[etf].rollups = {}
        /\ s3[etf].items_fallback = <<>>
        /\ s3'[etf].st = "done")
         => /\ s3'[etf] = Done23(ResFalse, 0)
            /\ all_pending_rollups' = all_pending_rollups]_vars

\* C30: no rollup call is issued with an empty input list: a Stage 2 unit
\* whose windowed and unfiltered queries both came back empty, and a Stage 3
\* unit with neither constituent narratives nor fallback articles, end
\* without a model-service call, return a skip and pend no snapshot row.
C30_NoCallOnEmptyInput ==
  [][/\ \A sym \in Symbols :
          (/\ pc = "stage2"
           /\ s2[sym].st = "running"
           /\ s2[sym].items = <<>>
           /\ s2'[sym].st = "done")
            => /\ s2'[sym].calls = 0
               /\ ~Returned(s2'[sym])
               /\ all_pending_rollups' = all_pending_rollups
     /\ \A etf \in Symbols :
          (/\ pc = "stage3"
           /\ s3[etf].st = "running"
           /\ s3[etf].rollups = {}
           /\ s3[etf].items_fallback = <<>>
           /\ s3'[etf].st = "done")
            => /\ s3'[etf].calls = 0
               /\ ~Returned(s3'[etf])
               /\ all_pending_rollups' = all_pending_rollups]_vars

====
